---- MODULE Spec2Model ----
(***************************************************************************)
(* Model of the dataset pipeline of code-authorship:                       *)
(*   DatasetReader.read   (readfile, Dataset.build, ConsolidateDatasets)   *)
(*   DatasetManager.balance_data                                           *)
(* Python lists are sequences, a dict is a sequence of <<key, value>>      *)
(* pairs in insertion order, an optional value (None or v) is <<>> or      *)
(* <<v>>.  Pool positions and labels are 0-based as in the code.           *)
(***************************************************************************)
EXTENDS Integers, Sequences, FiniteSets, TLC

\* ------------------------------------------------------------------ bounds
MaxSeed == 7          \* options.seed is drawn from 0..MaxSeed
MaxClassesBound == 3  \* max_classes drawn from None, -1..MaxClassesBound
MaxTokens == 2        \* longest token list of a record in the filter inputs

\* --------------------------------------------------------- program constants
files_per_author == 9

Langs == <<"python", "c", "cpp">>

\* usernames in lexicographic order (the order sorted() gives)
UserOrder == <<"alice", "bob", "carol", "dave", "erin">>

\* the part of keyword.kwlist + dir(builtins) that occurs among the token values
ReservedWords == {"for", "True"}

\* ------------------------------------------------------------ Python helpers
Range(s) == {s[i] : i \in 1..Len(s)}

Some(v) == <<v>>
NoneVal == <<>>
IsNone(o) == o = <<>>
Val(o) == o[1]

RECURSIVE Concat(_)
Concat(ss) == IF ss = <<>> THEN <<>> ELSE Head(ss) \o Concat(Tail(ss))

\* lst[:k] with Python's clamping and negative index
PySliceTo(s, k) ==
    LET n == Len(s)
        e == IF k < 0 THEN (IF n + k < 0 THEN 0 ELSE n + k)
                      ELSE (IF k > n THEN n ELSE k)
    IN SubSeq(s, 1, e)

\* str.lower on the token values in use
Lower(v) == CASE v = "Foo"  -> "foo"
              [] v = "True" -> "true"
              [] OTHER      -> v

\* sorted(set(names))
Sorted(S) == SelectSeq(UserOrder, LAMBDA u : u \in S)

\* dict as a sequence of <<key, value>> pairs in insertion order
DictKeys(d) == {d[i][1] : i \in 1..Len(d)}
DictGet(d, k) == LET i == CHOOSE j \in 1..Len(d) : d[j][1] = k IN d[i][2]
DictSet(d, k, v) ==
    IF k \in DictKeys(d)
    THEN [i \in 1..Len(d) |-> IF d[i][1] = k THEN <<k, v>> ELSE d[i]]
    ELSE Append(d, <<k, v>>)

\* x in lst, for Python values tagged with their type: values of different
\* types never compare equal
PyStr(s) == [tag |-> "str", v |-> s]
PyDict(f) == [tag |-> "dict", v |-> f]
PyIn(x, lst) == \E i \in 1..Len(lst) : lst[i].tag = x.tag /\ lst[i].v = x.v

\* -------------------------------------------------------------------- state
VARIABLES
    files,      \* language -> the records (JSON lines) of its input file
    options,    \* the command-line options
    rng,        \* what the seeded random source yielded: the draws of the two shuffles
    pc,         \* position in the pipeline
    datasets,   \* the datasets (consolidated in place by ConsolidateDatasets)
    pool,       \* all_text_data, all_labels, all_languages (shuffled)
    sel,        \* label_lst, index_to_keep, found, language_distribution_lst
    out         \* what balance_data returns, and the logged distribution

vars == <<files, options, rng, pc, datasets, pool, sel, out>>

\* ------------------------------------------------------------ DatasetReader
\* readfile: the records of a file whose token list is not empty
readfile(recs) == SelectSeq(recs, LAMBDA ex : Len(ex.tokens) # 0)

\* ------------------------------------------------------------------ Dataset
\* get_author_usage: token value -> the usernames that used it
get_author_usage(records) ==
    LET vals == UNION {{records[i].tokens[j].val : j \in 1..Len(records[i].tokens)}
                       : i \in 1..Len(records)}
    IN [v \in vals |->
          {records[i].username : i \in
              {k \in 1..Len(records) :
                  \E j \in 1..Len(records[k].tokens) : records[k].tokens[j].val = v}}]

\* the token filters with include_type consulted only when exclude_type is empty
FilterTokensBoth(tokens, opts, author_usage) ==
    LET t1 == IF Cardinality(opts.exclude_type) > 0
              THEN SelectSeq(tokens, LAMBDA x : x.type \notin opts.exclude_type)
              ELSE tokens
        t2 == IF Cardinality(opts.exclude_type) = 0 /\ Cardinality(opts.include_type) > 0
              THEN SelectSeq(t1, LAMBDA x : x.type \in opts.include_type)
              ELSE t1
        t3 == IF opts.reserved
              THEN SelectSeq(t2, LAMBDA x : x.val \in ReservedWords)
              ELSE t2
        t4 == IF opts.notreserved
              THEN SelectSeq(t3, LAMBDA x : x.val \notin ReservedWords)
              ELSE t3
        t5 == IF ~IsNone(opts.author_usage)
              THEN SelectSeq(t4, LAMBDA x :
                       Cardinality(author_usage[x.val]) >= Val(opts.author_usage))
              ELSE t4
    IN t5

\* the token filters of Dataset.build, in the order of the code
FilterTokens(tokens, opts, author_usage) ==
    LET t1 == IF Cardinality(opts.exclude_type) > 0
              THEN SelectSeq(tokens, LAMBDA x : x.type \notin opts.exclude_type)
              ELSE tokens
        t2 == IF Cardinality(opts.include_type) > 0
              THEN SelectSeq(t1, LAMBDA x : x.type \in opts.include_type)
              ELSE t1
        t3 == IF opts.reserved
              THEN SelectSeq(t2, LAMBDA x : x.val \in ReservedWords)
              ELSE t2
        t4 == IF opts.notreserved
              THEN SelectSeq(t3, LAMBDA x : x.val \notin ReservedWords)
              ELSE t3
        t5 == IF ~IsNone(opts.author_usage)
              THEN SelectSeq(t4, LAMBDA x :
                       Cardinality(author_usage[x.val]) >= Val(opts.author_usage))
              ELSE t4
    IN t5

\* indexify(value2idx, lst) for a flat list
indexify(value2idx, lst) == [i \in 1..Len(lst) |-> DictGet(value2idx, lst[i])]

\* build_label_vocab: dense indices in sorted order
build_label_vocab(labels) ==
    LET sorted == Sorted(Range(labels))
        label2idx == [i \in 1..Len(sorted) |-> <<sorted[i], i - 1>>]
    IN [labels |-> indexify(label2idx, labels), label2idx |-> label2idx]

\* Dataset.build that appends to seq only when tokens are left after filtering
DatasetBuildSkipEmpty(language, records, opts) ==
    LET author_usage == IF ~IsNone(opts.author_usage)
                        THEN get_author_usage(records) ELSE <<>>
        toks == SelectSeq([i \in 1..Len(records) |->
                    FilterTokens(records[i].tokens, opts, author_usage)],
                    LAMBDA t : t # <<>>)
        seq == [i \in 1..Len(toks) |->
                    [j \in 1..Len(toks[i]) |-> Lower(toks[i][j].val)]]
        usernames == [i \in 1..Len(records) |-> records[i].username]
        example_ids == [i \in 1..Len(records) |-> records[i].example_id]
        seq_types == [i \in 1..Len(toks) |->
                    [j \in 1..Len(toks[i]) |-> toks[i][j].type]]
        vocab == build_label_vocab(usernames)
        lang == [i \in 1..Len(example_ids) |-> language]
        extra == IF opts.extra_type
                 THEN [example_ids |-> example_ids, labels |-> vocab.labels,
                       lang |-> lang, seq_types |-> seq_types]
                 ELSE [example_ids |-> example_ids, labels |-> vocab.labels,
                       lang |-> lang]
    IN [primary |-> seq,
        secondary |-> extra,
        metadata |-> [label2idx |-> vocab.label2idx, language |-> language]]

\* Dataset.build
DatasetBuild(language, records, opts) ==
    LET author_usage == IF ~IsNone(opts.author_usage)
                        THEN get_author_usage(records) ELSE <<>>
        toks == [i \in 1..Len(records) |->
                    FilterTokens(records[i].tokens, opts, author_usage)]
        seq == [i \in 1..Len(records) |->
                    [j \in 1..Len(toks[i]) |-> Lower(toks[i][j].val)]]
        usernames == [i \in 1..Len(records) |-> records[i].username]
        example_ids == [i \in 1..Len(records) |-> records[i].example_id]
        seq_types == [i \in 1..Len(records) |->
                    [j \in 1..Len(toks[i]) |-> toks[i][j].type]]
        vocab == build_label_vocab(usernames)
        lang == [i \in 1..Len(example_ids) |-> language]
        extra == IF opts.extra_type
                 THEN [example_ids |-> example_ids, labels |-> vocab.labels,
                       lang |-> lang, seq_types |-> seq_types]
                 ELSE [example_ids |-> example_ids, labels |-> vocab.labels,
                       lang |-> lang]
    IN [primary |-> seq,
        secondary |-> extra,
        metadata |-> [label2idx |-> vocab.label2idx, language |-> language]]

\* ------------------------------------------------------ ConsolidateDatasets
\* the loop over x2y.items() of consolidate_mappings: st holds master_mapping
\* and old2master; inv is inverse_mapping_lst as it stands
RECURSIVE consolidate_items(_, _, _)
consolidate_items(items, st, inv) ==
    IF items = <<>> THEN st
    ELSE LET x == Head(items)[1]
             y == Head(items)[2]
             master == IF ~PyIn(PyStr(x), inv)
                       THEN DictSet(st.master, x, Len(st.master))
                       ELSE st.master
             old2master == (y :> DictGet(master, x)) @@ st.old2master
         IN consolidate_items(Tail(items),
                              [master |-> master, old2master |-> old2master], inv)

RECURSIVE consolidate_loop(_, _, _)
consolidate_loop(mapping_lst, master_mapping, inverse_mapping_lst) ==
    IF mapping_lst = <<>>
    THEN [master |-> master_mapping, inverse |-> inverse_mapping_lst]
    ELSE LET st == consolidate_items(Head(mapping_lst),
                       [master |-> master_mapping, old2master |-> <<>>],
                       inverse_mapping_lst)
         IN consolidate_loop(Tail(mapping_lst), st.master,
                             Append(inverse_mapping_lst, PyDict(st.old2master)))

consolidate_mappings(mapping_lst) == consolidate_loop(mapping_lst, <<>>, <<>>)

\* reindex a flat list of labels
reindex(data, inverse_mapping) ==
    [i \in 1..Len(data) |-> inverse_mapping[data[i]]]

\* ConsolidateDatasets.build
ConsolidateBuild(dsets) ==
    LET label2idx_lst == [i \in 1..Len(dsets) |-> dsets[i].metadata.label2idx]
        cm == consolidate_mappings(label2idx_lst)
    IN [i \in 1..Len(dsets) |->
          [dsets[i] EXCEPT
              !.secondary.labels = reindex(dsets[i].secondary.labels, cm.inverse[i].v),
              !.metadata.label2idx = cm.master]]

\* ----------------------------------------------------------- random source
Arange(n) == [k \in 1..n |-> k - 1]

\* random.shuffle(x): for i in reversed(range(1, len(x))), j = randbelow(i + 1)
\* and x[i], x[j] are swapped; draws[k] is the k-th value of randbelow
RECURSIVE shuffle_from(_, _, _)
shuffle_from(x, draws, k) ==
    IF k > Len(x) - 1 THEN x
    ELSE LET i == Len(x) - k
             j == draws[k]
         IN shuffle_from([x EXCEPT ![i + 1] = x[j + 1], ![j + 1] = x[i + 1]],
                         draws, k + 1)

shuffle(s, draws) == shuffle_from(s, draws, 1)

\* every sequence of values randbelow can return while a list of n is shuffled
AllDraws(n) ==
    IF n < 2 THEN {<<>>}
    ELSE {d \in [1..(n - 1) -> 0..(n - 1)] : \A k \in 1..(n - 1) : d[k] <= n - k}

\* the values of options.seed tried
Seeds == 0..MaxSeed

\* the bits kept of each 32-bit output of the generator; randbelow(n) reads
\* the n.bit_length() high bits, so lists of up to 2^WordBits - 1 are covered
WordBits == 6

\* genrand_top[seed + 1][k]: the WordBits high bits of the k-th 32-bit output
\* of the Mersenne Twister after random.seed(seed), for seed = 0, 1, ...
genrand_top ==
   <<
      <<54, 24, 48, 56, 26, 2, 16, 61, 32, 31, 25, 58, 50, 53, 19, 61, 30, 22, 37, 57, 58, 13, 32, 8, 18, 8, 48, 6, 39, 51, 16, 63, 58, 34, 62, 45, 51, 38, 57, 9, 19, 6, 46, 4, 57, 54, 43, 21, 30, 35, 6, 22, 27, 20, 39, 40,
        58, 13, 61, 35, 30, 28, 55, 33, 16, 3, 51, 58, 35, 58, 0, 5, 46, 53, 25, 45, 52, 50, 42, 40, 0, 39, 31, 52, 55, 21, 15, 46, 20, 45, 55, 4, 12, 58, 36, 14, 15, 51, 61, 9, 51, 34, 28, 5, 5, 63, 20, 56, 32, 63, 59, 31>>,
      <<8, 36, 54, 51, 48, 4, 16, 7, 31, 48, 28, 30, 41, 24, 50, 13, 6, 31, 1, 57, 53, 24, 27, 38, 48, 49, 0, 44, 28, 17, 46, 51, 14, 37, 60, 6, 57, 20, 1, 1, 1, 41, 34, 0, 60, 56, 24, 43, 13, 62, 27, 46, 1, 33, 14, 48,
        28, 60, 31, 35, 14, 22, 14, 43, 14, 48, 29, 60, 18, 59, 1, 26, 53, 58, 35, 59, 41, 6, 11, 40, 63, 46, 55, 18, 7, 47, 21, 57, 46, 62, 45, 32, 59, 61, 27, 32, 53, 58, 42, 12, 19, 18, 37, 62, 56, 31, 54, 60, 32, 25, 37, 54>>,
      <<61, 55, 60, 54, 3, 5, 5, 23, 53, 10, 47, 51, 42, 54, 19, 16, 38, 13, 38, 2, 37, 43, 10, 63, 27, 40, 25, 51, 46, 55, 63, 32, 60, 23, 34, 59, 28, 32, 17, 57, 2, 55, 1, 23, 29, 59, 20, 58, 24, 27, 57, 56, 33, 10, 35, 11,
        15, 14, 1, 11, 20, 11, 8, 32, 32, 23, 63, 32, 43, 35, 11, 63, 57, 28, 50, 26, 47, 33, 58, 58, 48, 23, 50, 37, 22, 23, 62, 54, 61, 28, 10, 61, 48, 25, 45, 47, 29, 41, 33, 15, 31, 17, 59, 31, 32, 32, 53, 50, 22, 42, 56, 29>>,
      <<15, 37, 34, 8, 23, 58, 38, 30, 40, 37, 4, 38, 0, 58, 53, 30, 16, 35, 14, 12, 63, 45, 30, 34, 53, 35, 30, 25, 40, 55, 9, 14, 40, 9, 55, 59, 33, 24, 47, 0, 42, 49, 4, 10, 48, 61, 37, 2, 19, 49, 1, 52, 55, 17, 30, 38,
        46, 58, 56, 24, 45, 50, 58, 27, 25, 46, 51, 36, 28, 61, 59, 8, 56, 23, 6, 2, 8, 31, 13, 16, 61, 43, 27, 49, 40, 54, 19, 26, 32, 53, 24, 36, 22, 34, 37, 26, 37, 14, 57, 21, 43, 58, 59, 1, 54, 17, 63, 38, 42, 44, 10, 44>>,
      <<15, 19, 6, 46, 25, 30, 9, 5, 4, 1, 25, 35, 58, 18, 51, 63, 48, 3, 14, 33, 34, 23, 17, 49, 11, 52, 6, 16, 13, 60, 59, 1, 53, 41, 51, 16, 51, 17, 12, 10, 19, 18, 40, 55, 46, 61, 54, 54, 56, 23, 5, 54, 38, 21, 42, 24,
        32, 15, 11, 15, 30, 17, 5, 60, 59, 52, 55, 60, 35, 53, 19, 0, 58, 18, 36, 45, 56, 19, 54, 48, 32, 12, 26, 27, 38, 18, 27, 28, 10, 14, 19, 16, 52, 51, 2, 5, 2, 29, 40, 63, 17, 33, 34, 41, 30, 44, 21, 9, 63, 43, 12, 4>>,
      <<39, 16, 47, 22, 50, 44, 60, 53, 47, 41, 59, 33, 1, 53, 29, 49, 60, 15, 41, 3, 57, 10, 7, 23, 30, 55, 15, 24, 34, 6, 36, 15, 0, 46, 13, 26, 17, 11, 58, 55, 49, 24, 10, 48, 51, 4, 8, 39, 39, 28, 8, 8, 0, 62, 55, 0,
        13, 49, 13, 61, 62, 10, 55, 10, 18, 20, 61, 12, 34, 56, 43, 40, 13, 11, 60, 61, 44, 12, 61, 61, 57, 24, 19, 1, 23, 26, 10, 59, 9, 16, 4, 21, 19, 52, 38, 37, 0, 38, 43, 45, 21, 4, 19, 22, 52, 19, 30, 44, 20, 11, 30, 30>>,
      <<50, 36, 52, 5, 31, 48, 16, 2, 0, 9, 42, 37, 30, 61, 48, 47, 23, 20, 49, 1, 17, 31, 51, 12, 46, 55, 26, 58, 34, 34, 43, 6, 12, 36, 35, 44, 51, 46, 16, 42, 51, 39, 43, 5, 54, 27, 21, 63, 5, 23, 51, 26, 51, 16, 28, 44,
        6, 48, 12, 44, 40, 50, 18, 6, 60, 2, 37, 57, 12, 52, 41, 58, 23, 31, 59, 53, 58, 12, 32, 36, 41, 62, 44, 57, 51, 32, 62, 58, 1, 40, 23, 15, 38, 27, 19, 22, 37, 7, 5, 32, 56, 43, 33, 12, 7, 38, 42, 17, 19, 46, 12, 24>>,
      <<20, 60, 9, 25, 41, 3, 4, 52, 34, 6, 23, 37, 3, 58, 32, 13, 2, 5, 27, 26, 4, 15, 5, 35, 27, 3, 52, 36, 7, 60, 14, 40, 40, 37, 60, 3, 36, 37, 25, 3, 62, 14, 2, 35, 54, 8, 18, 26, 9, 34, 7, 36, 19, 35, 52, 43,
        11, 6, 37, 36, 40, 12, 23, 6, 35, 45, 4, 36, 3, 39, 13, 31, 43, 34, 27, 49, 20, 29, 37, 59, 29, 23, 19, 15, 50, 11, 44, 49, 15, 5, 36, 19, 33, 31, 56, 21, 46, 28, 18, 38, 62, 4, 7, 32, 26, 10, 48, 21, 9, 59, 31, 26>>,
      <<14, 23, 61, 24, 8, 12, 45, 2, 5, 8, 15, 51, 63, 32, 13, 25, 41, 1, 29, 31, 29, 24, 31, 36, 12, 57, 53, 25, 5, 31, 14, 48, 1, 44, 17, 33, 26, 30, 57, 58, 24, 46, 7, 42, 16, 6, 63, 52, 4, 24, 39, 53, 24, 6, 42, 3,
        21, 15, 44, 5, 31, 57, 41, 33, 57, 13, 37, 51, 9, 38, 4, 34, 60, 2, 31, 44, 12, 9, 60, 55, 37, 29, 46, 37, 56, 28, 18, 35, 22, 54, 56, 27, 8, 10, 48, 38, 6, 34, 44, 20, 44, 22, 60, 41, 53, 31, 32, 39, 12, 19, 9, 22>>,
      <<29, 39, 23, 17, 8, 11, 55, 43, 0, 21, 32, 29, 57, 38, 5, 21, 35, 59, 39, 44, 2, 46, 24, 10, 45, 60, 28, 60, 46, 27, 10, 10, 15, 3, 7, 8, 32, 55, 59, 63, 37, 4, 49, 44, 24, 50, 47, 56, 6, 58, 18, 13, 43, 14, 46, 50,
        26, 56, 5, 49, 17, 58, 13, 25, 17, 21, 51, 2, 12, 45, 56, 0, 56, 26, 3, 57, 24, 54, 31, 8, 1, 15, 27, 47, 58, 54, 7, 61, 38, 0, 7, 48, 37, 12, 57, 54, 12, 21, 0, 57, 5, 8, 34, 58, 1, 32, 5, 36, 31, 34, 58, 12>>,
      <<36, 2, 27, 30, 36, 0, 13, 29, 52, 31, 52, 17, 41, 51, 10, 2, 33, 31, 20, 4, 15, 60, 60, 47, 63, 23, 2, 26, 55, 8, 38, 22, 24, 26, 18, 52, 43, 16, 29, 11, 43, 19, 42, 23, 8, 29, 49, 55, 62, 15, 62, 28, 39, 24, 2, 37,
        0, 15, 8, 12, 60, 58, 19, 34, 23, 49, 57, 15, 20, 42, 35, 28, 27, 30, 4, 41, 37, 20, 54, 32, 10, 53, 14, 62, 26, 15, 2, 2, 31, 19, 52, 38, 42, 4, 34, 59, 54, 5, 9, 24, 36, 60, 23, 58, 38, 9, 7, 61, 49, 49, 6, 28>>,
      <<28, 55, 35, 54, 59, 49, 29, 28, 32, 54, 37, 12, 11, 51, 32, 30, 40, 39, 50, 11, 6, 28, 19, 9, 5, 34, 51, 56, 44, 40, 2, 38, 62, 25, 61, 28, 41, 47, 39, 41, 10, 39, 0, 53, 33, 4, 3, 2, 12, 56, 15, 38, 1, 49, 29, 20,
        28, 37, 53, 12, 33, 14, 40, 18, 31, 0, 42, 5, 29, 41, 17, 26, 63, 35, 63, 59, 53, 5, 45, 16, 20, 48, 14, 32, 18, 1, 4, 36, 49, 6, 25, 6, 54, 18, 24, 4, 61, 1, 54, 43, 0, 13, 13, 59, 58, 3, 30, 24, 62, 45, 25, 26>>,
      <<30, 17, 42, 33, 42, 22, 9, 24, 0, 63, 23, 30, 17, 41, 51, 29, 44, 55, 38, 14, 35, 0, 42, 39, 9, 62, 28, 23, 10, 21, 57, 13, 3, 36, 52, 12, 4, 32, 43, 52, 21, 43, 25, 51, 53, 5, 1, 58, 3, 52, 58, 42, 32, 14, 5, 63,
        63, 27, 60, 28, 7, 42, 27, 62, 8, 34, 20, 56, 39, 35, 10, 62, 44, 56, 3, 35, 10, 32, 52, 5, 25, 38, 26, 42, 38, 30, 30, 38, 24, 34, 1, 41, 46, 5, 61, 12, 62, 50, 42, 16, 22, 60, 23, 55, 44, 24, 43, 19, 7, 16, 15, 21>>,
      <<16, 18, 43, 58, 43, 51, 54, 56, 11, 41, 14, 42, 9, 55, 14, 41, 46, 11, 8, 4, 34, 54, 13, 47, 18, 1, 27, 8, 53, 43, 38, 63, 0, 63, 17, 53, 9, 5, 55, 50, 51, 56, 51, 16, 52, 28, 47, 27, 60, 8, 50, 56, 16, 22, 54, 14,
        31, 57, 48, 35, 36, 62, 27, 42, 23, 56, 27, 40, 20, 41, 7, 22, 52, 38, 51, 40, 63, 16, 44, 28, 35, 39, 47, 63, 8, 28, 43, 46, 28, 34, 11, 18, 12, 11, 33, 22, 16, 23, 29, 16, 38, 17, 25, 56, 8, 36, 31, 35, 15, 36, 15, 56>>,
      <<6, 39, 44, 48, 41, 33, 60, 15, 17, 47, 16, 18, 46, 4, 42, 28, 19, 29, 43, 55, 25, 25, 49, 58, 7, 16, 14, 55, 57, 20, 22, 51, 16, 23, 51, 40, 40, 33, 9, 10, 35, 42, 42, 17, 10, 0, 41, 4, 7, 38, 21, 1, 5, 17, 13, 54,
        62, 24, 25, 37, 63, 59, 28, 57, 38, 6, 55, 41, 43, 56, 7, 37, 37, 40, 40, 23, 11, 55, 6, 47, 55, 31, 32, 43, 12, 17, 28, 39, 13, 31, 51, 18, 32, 16, 6, 7, 52, 63, 5, 17, 17, 7, 1, 10, 47, 26, 7, 43, 33, 37, 5, 27>>,
      <<61, 13, 0, 33, 47, 2, 10, 58, 63, 15, 1, 3, 56, 51, 43, 9, 54, 44, 63, 23, 15, 7, 21, 29, 45, 22, 17, 25, 16, 22, 14, 59, 54, 13, 55, 22, 51, 20, 14, 19, 59, 46, 32, 26, 14, 36, 29, 53, 26, 31, 5, 29, 36, 51, 23, 28,
        36, 20, 59, 44, 41, 28, 25, 49, 55, 51, 63, 4, 31, 61, 60, 53, 1, 12, 8, 34, 11, 39, 60, 50, 44, 54, 46, 1, 18, 33, 31, 9, 56, 54, 6, 57, 7, 25, 3, 4, 29, 46, 53, 58, 35, 18, 25, 59, 32, 14, 11, 34, 60, 32, 22, 5>>
   >>

\* int.bit_length()
RECURSIVE bit_length(_)
bit_length(n) == IF n = 0 THEN 0 ELSE 1 + bit_length(n \div 2)

\* Random.getrandbits(k) for k <= WordBits: the k high bits of the next output
getrandbits(stream, pos, k) == stream[pos] \div (2 ^ (WordBits - k))

\* Random._randbelow(n): k = n.bit_length(); r = getrandbits(k) until r < n;
\* the value is <<r, position of the next output>>
RECURSIVE randbelow(_, _, _)
randbelow(stream, pos, n) ==
    LET k == bit_length(n)
        r == getrandbits(stream, pos, k)
    IN IF r >= n THEN randbelow(stream, pos + 1, n) ELSE <<r, pos + 1>>

\* the values randbelow(i + 1), randbelow(i), ..., randbelow(2) take from pos on
RECURSIVE draws_from(_, _, _)
draws_from(stream, pos, i) ==
    IF i < 1 THEN <<>>
    ELSE LET rb == randbelow(stream, pos, i + 1)
         IN <<rb[1]>> \o draws_from(stream, rb[2], i - 1)

\* the draws of random.seed(seed); random.shuffle(x) for a list x of n
SeededDraws(n, seed) == draws_from(genrand_top[seed + 1], 1, n - 1)

\* the draws tried for the pool shuffle
PoolDraws(n) == {SeededDraws(n, seed) : seed \in Seeds}

\* the orders in which a set of language strings can be iterated: string
\* hashes are randomized per process, and strings that collide in the table
\* are iterated in an order that depends on the insertion order
HashOrders ==
    {<<"python", "c", "cpp">>, <<"python", "cpp", "c">>, <<"c", "python", "cpp">>,
     <<"c", "cpp", "python">>, <<"cpp", "python", "c">>, <<"cpp", "c", "python">>}

\* tuple(set(strs)) under hash order h
TupleOfSet(S, h) == SelectSeq(h, LAMBDA l : l \in S)

\* list(set(ints)): small non-negative ints are iterated in ascending order
RECURSIVE ListOfIntSet(_)
ListOfIntSet(S) ==
    IF S = {} THEN <<>>
    ELSE LET m == CHOOSE x \in S : \A y \in S : x <= y
         IN <<m>> \o ListOfIntSet(S \ {m})

\* ------------------------------------------------------------ DatasetManager
\* steps 1 and 2 of balance_data: accumulate all data, shuffle it
accumulate_shuffle(dsets, draws) ==
    LET text == Concat([i \in 1..Len(dsets) |-> dsets[i].primary])
        labels == Concat([i \in 1..Len(dsets) |-> dsets[i].secondary.labels])
        languages == Concat([i \in 1..Len(dsets) |-> dsets[i].secondary.lang])
        N == Len(labels)
        rindex == shuffle(Arange(N), draws)
    IN [all_text_data |-> [k \in 1..N |-> text[rindex[k] + 1]],
        all_labels    |-> [k \in 1..N |-> labels[rindex[k] + 1]],
        all_languages |-> [k \in 1..N |-> languages[rindex[k] + 1]]]

\* index[mask].tolist() for mask = (Y == label)
masked_index(Y, label) == SelectSeq(Arange(Len(Y)), LAMBDA i : Y[i + 1] = label)

\* the eligibility tests with the exact test written as the minimum test
eligible_min(Y, all_languages, label, opts) ==
    LET subindex == masked_index(Y, label)
        sublanguages == {all_languages[subindex[k] + 1] : k \in 1..Len(subindex)}
    IN /\ ~(Len(subindex) < files_per_author)
       /\ opts.multilang => ~(Cardinality(sublanguages) = 1)

\* the eligibility tests without the language test
eligible_anylang(Y, all_languages, label, opts) ==
    LET subindex == masked_index(Y, label)
    IN IF opts.exact THEN Len(subindex) = files_per_author
                     ELSE ~(Len(subindex) < files_per_author)

\* the eligibility tests of the loop body
eligible(Y, all_languages, label, opts) ==
    LET subindex == masked_index(Y, label)
        sublanguages == {all_languages[subindex[k] + 1] : k \in 1..Len(subindex)}
    IN /\ IF opts.exact THEN Len(subindex) = files_per_author
                        ELSE ~(Len(subindex) < files_per_author)
       /\ opts.multilang => ~(Cardinality(sublanguages) = 1)

\* the loop taking all the instances of an eligible class
RECURSIVE balance_loop_all(_, _, _, _, _, _)
balance_loop_all(label_lst, Y, all_languages, opts, hs, acc) ==
    IF label_lst = <<>> THEN acc
    ELSE LET label == Head(label_lst)
             subindex == masked_index(Y, label)
             sublanguages == {all_languages[subindex[k] + 1] : k \in 1..Len(subindex)}
             next == IF eligible(Y, all_languages, label, opts)
                     THEN [index_to_keep |-> acc.index_to_keep \o subindex,
                           found |-> acc.found + 1,
                           language_distribution_lst |->
                               Append(acc.language_distribution_lst,
                                      TupleOfSet(sublanguages, Head(hs)))]
                     ELSE acc
         IN balance_loop_all(Tail(label_lst), Y, all_languages, opts, Tail(hs), next)

\* the loop over label_lst of balance_data; acc holds index_to_keep, found and
\* language_distribution_lst; hs[k] is the order in which the set of languages
\* of the k-th label is iterated
RECURSIVE balance_loop(_, _, _, _, _, _)
balance_loop(label_lst, Y, all_languages, opts, hs, acc) ==
    IF label_lst = <<>> THEN acc
    ELSE LET label == Head(label_lst)
             subindex == PySliceTo(masked_index(Y, label), files_per_author)
             sublanguages == {all_languages[subindex[k] + 1] : k \in 1..Len(subindex)}
             next == IF eligible(Y, all_languages, label, opts)
                     THEN [index_to_keep |-> acc.index_to_keep \o subindex,
                           found |-> acc.found + 1,
                           language_distribution_lst |->
                               Append(acc.language_distribution_lst,
                                      TupleOfSet(sublanguages, Head(hs)))]
                     ELSE acc
         IN balance_loop(Tail(label_lst), Y, all_languages, opts, Tail(hs), next)

\* the iteration orders to try for the labels of label_lst, one per label: all
\* of HashOrders for a class whose recorded languages are two or more, and one
\* order for the other classes, for which every order gives the same tuple
RECURSIVE HashSeqs(_, _, _, _)
HashSeqs(label_lst, Y, all_languages, opts) ==
    IF label_lst = <<>> THEN {<<>>}
    ELSE LET label == Head(label_lst)
             subindex == PySliceTo(masked_index(Y, label), files_per_author)
             sublanguages == {all_languages[subindex[k] + 1] : k \in 1..Len(subindex)}
             choices == IF /\ eligible(Y, all_languages, label, opts)
                           /\ Cardinality(sublanguages) >= 2
                        THEN HashOrders ELSE {Langs}
         IN {<<h>> \o r : h \in choices,
                          r \in HashSeqs(Tail(label_lst), Y, all_languages, opts)}

\* Counter(lst)
Counter(lst) ==
    [t \in Range(lst) |-> Cardinality({i \in 1..Len(lst) : lst[i] = t})]

\* the downsampling with the selection cut at max_classes entries
downsample_entries(s, opts) ==
    IF ~IsNone(opts.max_classes)
    THEN [index_to_keep |-> PySliceTo(s.index_to_keep, Val(opts.max_classes)),
          language_distribution_lst |->
              PySliceTo(s.language_distribution_lst, Val(opts.max_classes))]
    ELSE [index_to_keep |-> s.index_to_keep,
          language_distribution_lst |-> s.language_distribution_lst]

\* the downsampling keeping one class more than max_classes
downsample_off_by_one(s, opts) ==
    IF ~IsNone(opts.max_classes)
    THEN [index_to_keep |->
              PySliceTo(s.index_to_keep, (Val(opts.max_classes) + 1) * files_per_author),
          language_distribution_lst |->
              PySliceTo(s.language_distribution_lst, Val(opts.max_classes) + 1)]
    ELSE [index_to_keep |-> s.index_to_keep,
          language_distribution_lst |-> s.language_distribution_lst]

\* the downsampling to max_classes
downsample(s, opts) ==
    IF ~IsNone(opts.max_classes)
    THEN [index_to_keep |->
              PySliceTo(s.index_to_keep, Val(opts.max_classes) * files_per_author),
          language_distribution_lst |->
              PySliceTo(s.language_distribution_lst, Val(opts.max_classes))]
    ELSE [index_to_keep |-> s.index_to_keep,
          language_distribution_lst |-> s.language_distribution_lst]

\* --------------------------------------------------------------- the inputs
NoPool == [all_text_data |-> <<>>, all_labels |-> <<>>, all_languages |-> <<>>]
NoSel == [label_lst |-> <<>>, index_to_keep |-> <<>>, found |-> 0,
          language_distribution_lst |-> <<>>]
NoOut == [text_data |-> <<>>, labels |-> <<>>, languages |-> <<>>,
          language_distribution |-> <<>>]

Tok(v, t) == [val |-> v, type |-> t]

\* the tokens of the i-th line of a generated file
SampleTokens(i) == IF i % 2 = 0 THEN <<Tok("Foo", "Name")>>
                   ELSE <<Tok("for", "Keyword"), Tok("x", "Name")>>

\* a file with cnt[u] lines of each user u, example ids counting from 0
MkFile(cnt) ==
    LET names == Concat([k \in 1..Len(UserOrder) |->
                    [i \in 1..(IF UserOrder[k] \in DOMAIN cnt THEN cnt[UserOrder[k]] ELSE 0)
                        |-> UserOrder[k]]])
    IN [i \in 1..Len(names) |->
            [username |-> names[i], example_id |-> i - 1, tokens |-> SampleTokens(i)]]

LangSet == Range(Langs)

MaxClassesSet == {NoneVal} \cup {Some(m) : m \in (-1)..MaxClassesBound}

DefaultFilter == [include_type |-> {}, exclude_type |-> {}, reserved |-> FALSE,
                  notreserved |-> FALSE, author_usage |-> NoneVal,
                  extra_type |-> FALSE]

MkOptions(f, exact, multilang, max_classes) ==
    [include_type |-> f.include_type, exclude_type |-> f.exclude_type,
     reserved |-> f.reserved, notreserved |-> f.notreserved,
     author_usage |-> f.author_usage, extra_type |-> f.extra_type,
     exact |-> exact, multilang |-> multilang, max_classes |-> max_classes]

InitRest ==
    /\ rng = [pool |-> <<>>, cls |-> <<>>]
    /\ pc = "start"
    /\ datasets = <<>>
    /\ pool = NoPool
    /\ sel = NoSel
    /\ out = NoOut

\* alice with 0 or 9 files in each of the three languages, bob with 0, 8 or 9
\* files in python and 0 or 9 in c
Init ==
    /\ \E a \in [LangSet -> {0, files_per_author}],
          bp \in {0, files_per_author - 1, files_per_author},
          bc \in {0, files_per_author} :
          files = [l \in LangSet |->
                     MkFile([u \in {"alice", "bob"} |->
                               IF u = "alice" THEN a[l]
                               ELSE IF l = "python" THEN bp
                               ELSE IF l = "c" THEN bc ELSE 0])]
    /\ \E exact \in BOOLEAN, multilang \in BOOLEAN, mc \in MaxClassesSet :
          options = MkOptions(DefaultFilter, exact, multilang, mc)
    /\ InitRest

\* one language, five users: alice has 8 or 9 files, bob 10, carol and dave
\* both 0 or both 9, erin 9
InitSingle ==
    /\ \E a \in {files_per_author - 1, files_per_author},
          c \in {0, files_per_author} :
          files = [l \in LangSet |->
                     IF l = "python"
                     THEN MkFile(("alice" :> a) @@ ("bob" :> files_per_author + 1)
                                 @@ ("carol" :> c) @@ ("dave" :> c)
                                 @@ ("erin" :> files_per_author))
                     ELSE <<>>]
    /\ \E exact \in BOOLEAN, mc \in MaxClassesSet :
          options = MkOptions(DefaultFilter, exact, FALSE, mc)
    /\ InitRest

Tokens == {Tok("for", "Keyword"), Tok("Foo", "Name"), Tok("True", "Literal")}

TokenSeqs(n) == UNION {[1..k -> Tokens] : k \in 0..n}

FilterSet ==
    [include_type : {{}, {"Name"}}, exclude_type : {{}, {"Keyword"}},
     reserved : BOOLEAN, notreserved : BOOLEAN,
     author_usage : {NoneVal, Some(2)}, extra_type : BOOLEAN]

\* a python file with a record of alice and one of bob, with all short token
\* lists, under all filters
InitFilter ==
    /\ \E t1 \in TokenSeqs(MaxTokens), t2 \in TokenSeqs(1) :
          files = [l \in LangSet |->
                    IF l = "python"
                    THEN <<[username |-> "alice", example_id |-> 0, tokens |-> t1],
                           [username |-> "bob", example_id |-> 1, tokens |-> t2]>>
                    ELSE <<>>]
    /\ \E f \in FilterSet : options = MkOptions(f, FALSE, FALSE, NoneVal)
    /\ InitRest

\* ------------------------------------------------------------------ actions
\* DatasetReader.read up to the call of ConsolidateDatasets().build
Build ==
    /\ pc = "start"
    /\ datasets' = [i \in 1..Len(Langs) |->
                       DatasetBuild(Langs[i], readfile(files[Langs[i]]), options)]
    /\ pc' = "built"
    /\ UNCHANGED <<files, options, rng, pool, sel, out>>

\* ConsolidateDatasets().build(datasets), the last step of read
Consolidate ==
    /\ pc = "built"
    /\ datasets' = ConsolidateBuild(datasets)
    /\ pc' = "consolidated"
    /\ UNCHANGED <<files, options, rng, pool, sel, out>>

\* the number of examples of all datasets
PoolSize(dsets) == Len(Concat([i \in 1..Len(dsets) |-> dsets[i].secondary.labels]))

\* balance_data, steps 1 and 2
Shuffle ==
    /\ pc = "consolidated"
    /\ \E d \in PoolDraws(PoolSize(datasets)) :
          /\ pool' = accumulate_shuffle(datasets, d)
          /\ rng' = [rng EXCEPT !.pool = d]
    /\ pc' = "shuffled"
    /\ UNCHANGED <<files, options, datasets, sel, out>>

\* balance_data, step 3: the loop over the shuffled labels
Select ==
    /\ pc = "shuffled"
    /\ LET labels == ListOfIntSet(Range(pool.all_labels))
       IN \E d \in AllDraws(Len(labels)) :
           LET label_lst == shuffle(labels, d)
           IN \E hs \in HashSeqs(label_lst, pool.all_labels, pool.all_languages, options) :
               LET acc == balance_loop(label_lst, pool.all_labels, pool.all_languages,
                                       options, hs,
                                       [index_to_keep |-> <<>>, found |-> 0,
                                        language_distribution_lst |-> <<>>])
               IN /\ sel' = [label_lst |-> label_lst,
                             index_to_keep |-> acc.index_to_keep,
                             found |-> acc.found,
                             language_distribution_lst |-> acc.language_distribution_lst]
                  /\ rng' = [rng EXCEPT !.cls = d]
    /\ pc' = "selected"
    /\ UNCHANGED <<files, options, datasets, pool, out>>

\* balance_data from the assertion to the return
Finish ==
    /\ pc = "selected"
    /\ IF Len(sel.index_to_keep) = files_per_author * sel.found
       THEN LET d == downsample(sel, options)
                keep == d.index_to_keep
            IN /\ sel' = [sel EXCEPT
                            !.index_to_keep = keep,
                            !.language_distribution_lst = d.language_distribution_lst]
               /\ out' = [text_data |-> [k \in 1..Len(keep) |->
                                            pool.all_text_data[keep[k] + 1]],
                          labels |-> [k \in 1..Len(keep) |->
                                            pool.all_labels[keep[k] + 1]],
                          languages |-> [k \in 1..Len(keep) |->
                                            pool.all_languages[keep[k] + 1]],
                          language_distribution |->
                              Counter(d.language_distribution_lst)]
               /\ pc' = "done"
       ELSE /\ pc' = "AssertionError"
            /\ UNCHANGED <<sel, out>>
    /\ UNCHANGED <<files, options, rng, datasets, pool>>

Next == Build \/ Consolidate \/ Shuffle \/ Select \/ Finish

Spec == Init /\ [][Next]_vars

SpecSingle == InitSingle /\ [][Next]_vars

SpecFilter == InitFilter /\ [][Next]_vars

\* ------------------------------------------------------ notions of the claims
\* the username of example k of dataset i (the k-th record that readfile kept)
UsernameOf(i, k) == readfile(files[Langs[i]])[k].username

Consolidated == pc \in {"consolidated", "shuffled", "selected", "done"}

\* the master label2idx (every dataset holds the same one after consolidation)
MasterOf(i) == datasets[i].metadata.label2idx

CountIn(s, x) == Cardinality({k \in 1..Len(s) : s[k] = x})

PoolLabels == Range(pool.all_labels)

PoolLangsOf(label) ==
    {pool.all_languages[k] : k \in {j \in 1..Len(pool.all_labels) :
                                        pool.all_labels[j] = label}}

\* the 0-based pool positions of a label
PoolPositions(label) ==
    {k - 1 : k \in {j \in 1..Len(pool.all_labels) : pool.all_labels[j] = label}}

\* the class passes the size test and, under multilang, the language test
PassesTests(label) ==
    /\ IF options.exact THEN CountIn(pool.all_labels, label) = files_per_author
                        ELSE CountIn(pool.all_labels, label) >= files_per_author
    /\ options.multilang => Cardinality(PoolLangsOf(label)) >= 2

\* the eligible classes in class-processing order
EligibleInOrder == SelectSeq(sel.label_lst, PassesTests)

Min(a, b) == IF a < b THEN a ELSE b

\* C1: a username that occurs in two datasets carries, after consolidation, the
\* same integer label on all its examples in both datasets, and that integer is
\* the one the master label2idx holds for the username.
C1_LabelConsolidation ==
    Consolidated =>
        \A i \in 1..Len(datasets), j \in 1..Len(datasets) :
            \A a \in 1..Len(datasets[i].secondary.labels),
               b \in 1..Len(datasets[j].secondary.labels) :
                (i # j /\ UsernameOf(i, a) = UsernameOf(j, b)) =>
                    /\ datasets[i].secondary.labels[a] = datasets[j].secondary.labels[b]
                    /\ datasets[i].secondary.labels[a]
                           = DictGet(MasterOf(i), UsernameOf(i, a))

\* C2: with exact off, every label in the output of balance_data occurs there
\* exactly files_per_author times, whatever multilang and max_classes are.
C2_BalanceExactness ==
    (pc = "done" /\ ~options.exact) =>
        \A l \in Range(out.labels) : CountIn(out.labels, l) = files_per_author

\* a run with exact off and max_classes set whose output keeps a class that had
\* more than files_per_author examples in the pool
C2_Witness ==
    /\ pc = "done"
    /\ ~options.exact
    /\ ~IsNone(options.max_classes)
    /\ \E l \in Range(out.labels) : CountIn(pool.all_labels, l) > files_per_author

\* C3: with exact on (multilang off, max_classes unset) a class whose pool count
\* differs from files_per_author contributes nothing, and a class with exactly
\* files_per_author examples contributes all of them.
C3_ExactModeFiltering ==
    (pc = "done" /\ options.exact /\ ~options.multilang /\ IsNone(options.max_classes)) =>
        \A l \in PoolLabels :
            /\ {sel.index_to_keep[k] : k \in {j \in 1..Len(out.labels) : out.labels[j] = l}}
                   = IF CountIn(pool.all_labels, l) = files_per_author
                     THEN PoolPositions(l) ELSE {}
            /\ CountIn(out.labels, l)
                   = IF CountIn(pool.all_labels, l) = files_per_author
                     THEN files_per_author ELSE 0

\* an exact-mode run over a pool with a class of 8, one of 9 and one of 10
C3_Witness ==
    /\ pc = "done" /\ options.exact /\ ~options.multilang /\ IsNone(options.max_classes)
    /\ \E l \in PoolLabels : CountIn(pool.all_labels, l) = files_per_author - 1
    /\ \E l \in PoolLabels : CountIn(pool.all_labels, l) = files_per_author + 1
    /\ \E l \in PoolLabels : /\ CountIn(pool.all_labels, l) = files_per_author
                             /\ CountIn(out.labels, l) = files_per_author

\* C4: with multilang on, a class all of whose pool examples carry one language
\* tag has no example in the output, whatever its size, exact and max_classes.
C4_MultilangGating ==
    (pc = "done" /\ options.multilang) =>
        \A l \in PoolLabels :
            Cardinality(PoolLangsOf(l)) = 1 => l \notin Range(out.labels)

\* a multilang run that outputs something while the pool holds a one-language
\* class of at least files_per_author examples
C4_Witness ==
    /\ pc = "done" /\ options.multilang
    /\ out.labels # <<>>
    /\ \E l \in PoolLabels : /\ Cardinality(PoolLangsOf(l)) = 1
                             /\ CountIn(pool.all_labels, l) >= files_per_author

\* C5: with max_classes = m >= 0 and E eligible classes, the output holds
\* min(m, E) * files_per_author examples over min(m, E) distinct labels, which
\* are the first min(m, E) eligible classes in class-processing order.
C5_MaxClassesTruncation ==
    (pc = "done" /\ ~IsNone(options.max_classes) /\ Val(options.max_classes) >= 0) =>
        LET E == Len(EligibleInOrder)
            n == Min(Val(options.max_classes), E)
        IN /\ Len(out.labels) = n * files_per_author
           /\ Len(out.text_data) = n * files_per_author
           /\ Cardinality(Range(out.labels)) = n
           /\ \A k \in 1..Len(out.labels) :
                  out.labels[k] = EligibleInOrder[((k - 1) \div files_per_author) + 1]

\* five eligible classes and max_classes = 3
C5_Witness ==
    /\ pc = "done"
    /\ options.max_classes = Some(3)
    /\ Len(EligibleInOrder) = 5
    /\ Len(out.labels) = 3 * files_per_author

\* the round-trip input: every language file holds exactly 9 records of alice
AliceScenario ==
    /\ \A l \in LangSet :
          /\ Len(files[l]) = files_per_author
          /\ \A k \in 1..Len(files[l]) : files[l][k].username = "alice"
    /\ options.multilang /\ ~options.exact /\ IsNone(options.max_classes)

\* C6: for the round-trip input the output has exactly 9 examples, all labelled
\* with alice's master index, and the language tuple recorded for the class
\* contains all 3 languages.
C6_RoundTrip ==
    (pc = "done" /\ AliceScenario) =>
        /\ Len(out.labels) = files_per_author
        /\ \A k \in 1..Len(out.labels) : out.labels[k] = DictGet(MasterOf(1), "alice")
        /\ Len(sel.language_distribution_lst) = 1
        /\ \A t \in Range(sel.language_distribution_lst) : Range(t) = LangSet

\* C7: every dataset returned by Dataset.build has len(primary) ==
\* len(secondary[key]) for every key of secondary, also when the filters remove
\* every token of an example, and still after the labels were reindexed.
C7_Alignment ==
    pc # "start" =>
        \A i \in 1..Len(datasets) :
            \A key \in DOMAIN datasets[i].secondary :
                Len(datasets[i].primary) = Len(datasets[i].secondary[key])

\* consolidated datasets, built with seq_types, one of whose examples lost all
\* of its tokens to the filters
C7_Witness ==
    /\ pc = "consolidated"
    /\ options.extra_type
    /\ \E i \in 1..Len(datasets) :
          \E k \in 1..Len(datasets[i].primary) : datasets[i].primary[k] = <<>>
    /\ \E i \in 1..Len(datasets) :
          \E k \in 1..Len(datasets[i].primary) : datasets[i].primary[k] # <<>>

\* only the two type filters are switched on
OnlyTypeFilters ==
    ~options.reserved /\ ~options.notreserved /\ IsNone(options.author_usage)

LowerVals(toks) == [j \in 1..Len(toks) |-> Lower(toks[j].val)]

\* C8 as stated: when exclude_type is non-empty only the exclusion is applied
\* and include_type is not consulted; include_type narrows the tokens only when
\* exclude_type is empty.
C8_ExcludeOnly ==
    (pc = "built" /\ OnlyTypeFilters) =>
        \A i \in 1..Len(datasets) :
            \A k \in 1..Len(datasets[i].primary) :
                LET toks == readfile(files[Langs[i]])[k].tokens
                IN datasets[i].primary[k] =
                     LowerVals(
                       IF options.exclude_type # {}
                       THEN SelectSeq(toks, LAMBDA x : x.type \notin options.exclude_type)
                       ELSE IF options.include_type # {}
                       THEN SelectSeq(toks, LAMBDA x : x.type \in options.include_type)
                       ELSE toks)

\* C8 amended: the exclusion is applied when exclude_type is non-empty and then
\* the inclusion is applied when include_type is non-empty, independently; with
\* both sets non-empty a token is kept only if its type is outside exclude_type
\* and inside include_type.
C8_TypeFilters ==
    (pc = "built" /\ OnlyTypeFilters) =>
        \A i \in 1..Len(datasets) :
            \A k \in 1..Len(datasets[i].primary) :
                LET toks == readfile(files[Langs[i]])[k].tokens
                IN datasets[i].primary[k] =
                     LowerVals(SelectSeq(toks, LAMBDA x :
                        /\ options.exclude_type # {} => x.type \notin options.exclude_type
                        /\ options.include_type # {} => x.type \in options.include_type))

\* both sets non-empty, and a record with a token whose type is in neither set
\* was built without that token
C8_Witness ==
    /\ pc = "built" /\ OnlyTypeFilters
    /\ options.exclude_type # {} /\ options.include_type # {}
    /\ \E k \in 1..Len(datasets[1].primary) :
          LET toks == readfile(files[Langs[1]])[k].tokens
          IN /\ \E j \in 1..Len(toks) :
                    /\ toks[j].type \notin options.exclude_type \cup options.include_type
                    /\ Lower(toks[j].val) \notin Range(datasets[1].primary[k])
             /\ datasets[1].primary[k] # <<>>

\* C10: when the loop over the labels ends, len(index_to_keep) ==
\* files_per_author * found, found being the number of classes that passed the
\* eligibility tests; the assertion never fails and no pool position is kept
\* twice.
C10_AssertionValid ==
    /\ pc # "AssertionError"
    /\ pc = "selected" =>
          /\ Len(sel.index_to_keep) = files_per_author * sel.found
          /\ sel.found = Cardinality({l \in PoolLabels : PassesTests(l)})
          /\ Cardinality(Range(sel.index_to_keep)) = Len(sel.index_to_keep)

\* the loop ended under multilang with a class found that is larger than
\* files_per_author, and a class skipped
C10_Witness ==
    /\ pc = "selected"
    /\ options.multilang
    /\ sel.found >= 1
    /\ \E l \in PoolLabels : PassesTests(l) /\ CountIn(pool.all_labels, l) > files_per_author
    /\ \E l \in PoolLabels : ~PassesTests(l)

\* the usernames of the records readfile keeps of the file of language i
UsernamesOf(i) ==
    {readfile(files[Langs[i]])[k].username : k \in 1..Len(readfile(files[Langs[i]]))}

\* the usernames in first-seen order over the ordered list of label mappings,
\* each mapping enumerated in its own (sorted) order
RECURSIVE FirstSeenFrom(_, _)
FirstSeenFrom(i, seen) ==
    IF i > Len(Langs) THEN seen
    ELSE FirstSeenFrom(i + 1,
            seen \o SelectSeq(Sorted(UsernamesOf(i)), LAMBDA u : u \notin Range(seen)))

FirstSeen == FirstSeenFrom(1, <<>>)

\* C11: a username gets its master index the first time it is seen, the size
\* of the master mapping at that moment, and keeps it afterwards: the master
\* mapping sends the N distinct usernames onto 0..N-1 in first-seen order, and
\* no two distinct usernames share a master index or a reindexed label.
C11_MasterMapping ==
    Consolidated =>
        /\ \A i \in 1..Len(datasets) :
              MasterOf(i) = [k \in 1..Len(FirstSeen) |-> <<FirstSeen[k], k - 1>>]
        /\ \A i \in 1..Len(datasets), j \in 1..Len(datasets) :
              \A a \in 1..Len(datasets[i].secondary.labels),
                 b \in 1..Len(datasets[j].secondary.labels) :
                  UsernameOf(i, a) # UsernameOf(j, b) =>
                      datasets[i].secondary.labels[a] # datasets[j].secondary.labels[b]

====
